---- MODULE Spec2Model ----
(***************************************************************************)
(* A model of blt.c, the crit-bit tree with tagged pointers.               *)
(*                                                                         *)
(* A key is a NUL-terminated C string, modelled as the sequence of its     *)
(* nonzero bytes; At(key, i) is the C expression key[i], the terminator    *)
(* included.  A node slot (struct blt_node_s, overlaid by BLT_IT for a     *)
(* leaf) is a record: a leaf [tag |-> 0, key, data] or an internal node    *)
(* [tag |-> 1, byte, mask, kid] whose kid is the pair <<q[0], q[1]>> of    *)
(* the two adjacent slots it points to.  A pointer to a slot is the path   *)
(* (a sequence of child indices 0/1) that leads to it from blt->root.      *)
(***************************************************************************)
EXTENDS Integers, Sequences, FiniteSets

\* Bounds of the model.
MaxLen == 2
MaxKeys == 3

\* The bytes keys are made of: one with its two low bits set, one that is the
\* sign bit of char.
Alphabet == {3, 128}
\* The payloads (void *data); 0 is the null pointer.
Data == {0, 1}

RECURSIVE SeqsUpTo(_)
SeqsUpTo(n) ==
  IF n = 0 THEN {<< >>}
  ELSE LET S == SeqsUpTo(n - 1)
       IN S \cup {Append(s, a) : s \in {t \in S : Len(t) = n - 1}, a \in Alphabet}

Keys == SeqsUpTo(MaxLen)

VARIABLES root, empty, ref, last, it, seen, heap
vars == <<root, empty, ref, last, it, seen, heap>>

----------------------------------------------------------------------------
\* Bytes and bit twiddling.

Pow2 == <<1, 2, 4, 8, 16, 32, 64, 128>>
Bit(x, i) == (x \div Pow2[i + 1]) % 2

BitSum(f) ==
  f[0] + 2 * f[1] + 4 * f[2] + 8 * f[3] + 16 * f[4] + 32 * f[5] + 64 * f[6] + 128 * f[7]

\* The C operators |, & and ^ on uint8_t, tabulated bit by bit.
Bytes == 0..255
OrTable ==
  [a \in Bytes |-> [b \in Bytes |->
    BitSum([i \in 0..7 |-> IF Bit(a, i) + Bit(b, i) > 0 THEN 1 ELSE 0])]]
AndTable ==
  [a \in Bytes |-> [b \in Bytes |->
    BitSum([i \in 0..7 |-> Bit(a, i) * Bit(b, i)])]]
XorTable ==
  [a \in Bytes |-> [b \in Bytes |->
    BitSum([i \in 0..7 |-> (Bit(a, i) + Bit(b, i)) % 2])]]
Or8(a, b) == OrTable[a][b]
And8(a, b) == AndTable[a][b]
Xor8(a, b) == XorTable[a][b]

\* key[i] as an unsigned byte; key[strlen(key)] is the terminator.
strlen(key) == Len(key)
At(key, i) == IF i < Len(key) THEN key[i + 1] ELSE 0

has_tag(p) == p.tag = 1

\* Faulty variant: the mask selects the lowest set bit of x.
to_mask_LowestBit(x) == Xor8(And8(x, (256 - x) % 256), 255)

to_mask(x) ==
  LET x1 == Or8(x, x \div 2)
      x2 == Or8(x1, x1 \div 4)
      x3 == Or8(x2, x2 \div 16)
  IN Xor8(And8(x3, 255 - (x3 \div 2)), 255)

decide(c, m) == (1 + Or8(m, c)) \div 256

\* strcmp and strncmp compare unsigned bytes; the result is reduced to its sign.
RECURSIVE StrCmpFrom(_, _, _, _)
StrCmpFrom(a, b, i, n) ==
  IF i = n THEN 0
  ELSE IF At(a, i) # At(b, i) THEN (IF At(a, i) < At(b, i) THEN -1 ELSE 1)
  ELSE IF At(a, i) = 0 THEN 0
  ELSE StrCmpFrom(a, b, i + 1, n)

strcmp(a, b) == StrCmpFrom(a, b, 0, Len(a) + 1)
strncmp(a, b, n) == StrCmpFrom(a, b, 0, n)

----------------------------------------------------------------------------
\* Slots and pointers.

\* The null pointer to a slot is a path no slot has; NULL is what it designates.
NullPtr == <<-1>>
NULL == [null |-> TRUE]
Leaf(key, data) == [tag |-> 0, key |-> key, data |-> data]
Internal(byte, mask, q) == [tag |-> 1, byte |-> byte, mask |-> mask, kid |-> q]

\* The root slot of a tree that never held a key (malloc'ed, never written).
Uninit == [tag |-> 0, key |-> << >>, data |-> 0]

\* *p for the pointer p (a path from the root slot r).
RECURSIVE SlotAt(_, _)
SlotAt(r, p) == IF p = << >> THEN r ELSE SlotAt(r.kid[Head(p) + 1], Tail(p))

\* *p = v.
RECURSIVE StoreAt(_, _, _)
StoreAt(r, p, v) ==
  IF p = << >> THEN v
  ELSE [r EXCEPT !.kid[Head(p) + 1] = StoreAt(r.kid[Head(p) + 1], Tail(p), v)]

\* The BLT_IT a leaf pointer designates, NULL for the null pointer.
Deref(r, p) == IF p = NullPtr THEN NULL ELSE SlotAt(r, p)

----------------------------------------------------------------------------
\* The heap.
\*
\* The blocks the tree obtains from malloc and strdup and returns with free:
\* the BLT itself, one block per sibling pair and one copy per key.  heap.live
\* counts the live blocks of each designation; heap.bad records a free of a
\* block that is not live.

KeyBlock(key) == [kind |-> "key", key |-> key]
PairBlock == [kind |-> "pair", key |-> << >>]
BltBlock == [kind |-> "blt", key |-> << >>]

malloc(h, b) ==
  [h EXCEPT !.live = [x \in DOMAIN h.live \cup {b} |->
                        IF x = b
                        THEN (IF b \in DOMAIN h.live THEN h.live[b] + 1 ELSE 1)
                        ELSE h.live[x]]]

free(h, b) ==
  IF b \notin DOMAIN h.live THEN [h EXCEPT !.bad = TRUE]
  ELSE IF h.live[b] = 1
       THEN [h EXCEPT !.live = [x \in DOMAIN h.live \ {b} |-> h.live[x]]]
       ELSE [h EXCEPT !.live[b] = @ - 1]

\* The allocations, and the frees, of one call, in the order the call makes them.
RECURSIVE Mallocs(_, _)
Mallocs(h, bs) == IF bs = << >> THEN h ELSE Mallocs(malloc(h, Head(bs)), Tail(bs))

RECURSIVE Frees(_, _)
Frees(h, bs) == IF bs = << >> THEN h ELSE Frees(free(h, Head(bs)), Tail(bs))

\* blt_new(): the heap holds the BLT alone.
blt_new == [live |-> [b \in {BltBlock} |-> 1], bad |-> FALSE]

----------------------------------------------------------------------------
\* Lookup.

RECURSIVE GetLoop(_, _, _)
GetLoop(r, p, key) ==
  LET n == SlotAt(r, p) IN
  IF has_tag(n)
  THEN IF n.byte > strlen(key) THEN NullPtr
       ELSE GetLoop(r, Append(p, decide(At(key, n.byte), n.mask)), key)
  ELSE IF strcmp(key, n.key) # 0 THEN NullPtr ELSE p

\* Faulty variant: the early return taken already when the crit byte is the terminator.
RECURSIVE GetLoop_EarlyAtTerminator(_, _, _)
GetLoop_EarlyAtTerminator(r, p, key) ==
  LET n == SlotAt(r, p) IN
  IF has_tag(n)
  THEN IF n.byte >= strlen(key) THEN NullPtr
       ELSE GetLoop_EarlyAtTerminator(r, Append(p, decide(At(key, n.byte), n.mask)), key)
  ELSE IF strcmp(key, n.key) # 0 THEN NullPtr ELSE p

blt_get_EarlyAtTerminator(r, e, key) ==
  IF e = 1 THEN NullPtr ELSE GetLoop_EarlyAtTerminator(r, << >>, key)

blt_get(r, e, key) == IF e = 1 THEN NullPtr ELSE GetLoop(r, << >>, key)

\* Faulty variant: where the key has ended the confident descent takes the
\* second kid.
RECURSIVE ConfidentLoop_PastEndRight(_, _, _)
ConfidentLoop_PastEndRight(r, p, key) ==
  LET n == SlotAt(r, p) IN
  IF has_tag(n)
  THEN ConfidentLoop_PastEndRight(r, Append(p, IF n.byte < strlen(key)
                                  THEN decide(At(key, n.byte), n.mask) ELSE 1), key)
  ELSE p

\* Walk down the tree as if the key is there.
RECURSIVE ConfidentLoop(_, _, _)
ConfidentLoop(r, p, key) ==
  LET n == SlotAt(r, p) IN
  IF has_tag(n)
  THEN ConfidentLoop(r, Append(p, IF n.byte < strlen(key)
                                  THEN decide(At(key, n.byte), n.mask) ELSE 0), key)
  ELSE p

confident_get(r, e, key) == IF e = 1 THEN NullPtr ELSE ConfidentLoop(r, << >>, key)

\* The comparison loop of blt_put_with and blt_ceilfloor: the index of the
\* first byte where key and pkey differ, -1 when the loop reaches the
\* terminator of key without a difference.
RECURSIVE CompareKeys(_, _, _)
CompareKeys(key, pkey, i) ==
  IF Xor8(At(key, i), At(pkey, i)) # 0 THEN i
  ELSE IF At(key, i) = 0 THEN -1
  ELSE CompareKeys(key, pkey, i + 1)

----------------------------------------------------------------------------
\* Insertion.

\* Faulty variant: the re-descent compares the byte numbers and not the masks.
RECURSIVE SpliceLoop_BytesOnly(_, _, _, _, _)
SpliceLoop_BytesOnly(r, p, key, byte, x) ==
  LET n == SlotAt(r, p) IN
  IF has_tag(n) /\ ~(byte < n.byte)
  THEN SpliceLoop_BytesOnly(r, Append(p, decide(At(key, n.byte), n.mask)), key, byte, x)
  ELSE p

\* Faulty variant: no re-descent, the new node is spliced in at the root.
SpliceLoop_AtRoot(r, p, key, byte, x) == p

\* The re-descent of blt_put_with: the first slot on the path of key that is
\* a leaf or whose crit bit is higher than (byte, x).
RECURSIVE SpliceLoop(_, _, _, _, _)
SpliceLoop(r, p, key, byte, x) ==
  LET n == SlotAt(r, p) IN
  IF has_tag(n) /\ ~((byte * 256) + x < (n.byte * 256) + n.mask)
  THEN SpliceLoop(r, Append(p, decide(At(key, n.byte), n.mask)), key, byte, x)
  ELSE p

\* The callbacks of blt_put and blt_put_if_absent, applied to the leaf found:
\* the leaf afterwards and the value returned.  A pointer to one of them is
\* its name, and already_present_cb is the call through that pointer.
\* Faulty variant: the callback of blt_put returns the payload it has just stored.
PutCb_ReturnsNew(leaf, data) == [leaf |-> [leaf EXCEPT !.data = data], ret |-> data]
\* Faulty variant: the callback of blt_put_if_absent stores the payload.
PutIfAbsentCb_Overwrites(leaf, data) == [leaf |-> [leaf EXCEPT !.data = data], ret |-> 1]
PutCb(leaf, data) == [leaf |-> [leaf EXCEPT !.data = data], ret |-> leaf.data]
PutIfAbsentCb(leaf, data) == [leaf |-> leaf, ret |-> 1]

already_present_cb(cb, leaf, data) ==
  IF cb = "blt_put" THEN PutCb(leaf, data) ELSE PutIfAbsentCb(leaf, data)

\* Faulty variant: the pair receives the leaf of the confident descent and not
\* the contents of the splice point.
blt_put_with_CopiesLeaf(r, e, key, data, cbname) ==
  LET p == confident_get(r, e, key) IN
  IF p = NullPtr
  THEN [root |-> Leaf(key, data), empty |-> 0, ret |-> 0,
        alloc |-> <<KeyBlock(key)>>]
  ELSE
    LET byte == CompareKeys(key, SlotAt(r, p).key, 0) IN
    IF byte = -1
    THEN LET cb == already_present_cb(cbname, SlotAt(r, p), data)
         IN [root |-> StoreAt(r, p, cb.leaf), empty |-> e, ret |-> cb.ret,
             alloc |-> << >>]
    ELSE
      LET x == to_mask(Xor8(At(key, byte), At(SlotAt(r, p).key, byte)))
          ndir == decide(At(key, byte), x)
          leaf == Leaf(key, data)
          sp == SpliceLoop(r, << >>, key, byte, x)
          old == SlotAt(r, p)
          n == IF ndir = 0 THEN <<leaf, old>> ELSE <<old, leaf>>
      IN [root |-> StoreAt(r, sp, Internal(byte, x, n)), empty |-> e, ret |-> 0,
          alloc |-> <<PairBlock, KeyBlock(key)>>]

blt_put_with(r, e, key, data, cbname) ==
  LET p == confident_get(r, e, key) IN
  IF p = NullPtr
  THEN [root |-> Leaf(key, data), empty |-> 0, ret |-> 0,
        alloc |-> <<KeyBlock(key)>>]
  ELSE
    LET byte == CompareKeys(key, SlotAt(r, p).key, 0) IN
    IF byte = -1
    THEN LET cb == already_present_cb(cbname, SlotAt(r, p), data)
         IN [root |-> StoreAt(r, p, cb.leaf), empty |-> e, ret |-> cb.ret,
             alloc |-> << >>]
    ELSE
      LET x == to_mask(Xor8(At(key, byte), At(SlotAt(r, p).key, byte)))
          ndir == decide(At(key, byte), x)
          leaf == Leaf(key, data)
          sp == SpliceLoop(r, << >>, key, byte, x)
          old == SlotAt(r, sp)
          n == IF ndir = 0 THEN <<leaf, old>> ELSE <<old, leaf>>
      IN [root |-> StoreAt(r, sp, Internal(byte, x, n)), empty |-> e, ret |-> 0,
          alloc |-> <<PairBlock, KeyBlock(key)>>]

blt_put(r, e, key, data) == blt_put_with(r, e, key, data, "blt_put")

blt_put_if_absent(r, e, key, data) ==
  LET res == blt_put_with(r, e, key, data, "blt_put_if_absent")
  IN [res EXCEPT !.ret = IF res.ret # 0 THEN 1 ELSE 0]

----------------------------------------------------------------------------
\* Deletion.

\* Faulty variant: the descent of blt_delete gives up at a node whose byte is
\* that of the terminator of key.
RECURSIVE DeleteLoop_EarlyAtTerminator(_, _, _, _, _)
DeleteLoop_EarlyAtTerminator(r, p, q0, dir, key) ==
  LET n == SlotAt(r, p) IN
  IF has_tag(n)
  THEN IF n.byte >= strlen(key)
       THEN [early |-> TRUE, p |-> p, q0 |-> q0, dir |-> dir]
       ELSE LET d == decide(n.mask, At(key, n.byte))
            IN DeleteLoop_EarlyAtTerminator(r, Append(p, d), p, d, key)
  ELSE [early |-> FALSE, p |-> p, q0 |-> q0, dir |-> dir]

\* The descent of blt_delete from the slot p, with q0 the parent slot and dir
\* the side last taken; early is set by the return inside the loop.
RECURSIVE DeleteLoop(_, _, _, _, _)
DeleteLoop(r, p, q0, dir, key) ==
  LET n == SlotAt(r, p) IN
  IF has_tag(n)
  THEN IF n.byte > strlen(key)
       THEN [early |-> TRUE, p |-> p, q0 |-> q0, dir |-> dir]
       ELSE LET d == decide(n.mask, At(key, n.byte))
            IN DeleteLoop(r, Append(p, d), p, d, key)
  ELSE [early |-> FALSE, p |-> p, q0 |-> q0, dir |-> dir]

\* Faulty variant: removing the sole entry leaves the tree marked non-empty.
blt_delete_StaysNonEmpty(r, e, key) ==
  IF e = 1 THEN [root |-> r, empty |-> e, ret |-> 0, free |-> << >>]
  ELSE
    LET d == DeleteLoop(r, << >>, NullPtr, 0, key) IN
    IF d.early THEN [root |-> r, empty |-> e, ret |-> 0, free |-> << >>]
    ELSE IF strcmp(key, SlotAt(r, d.p).key) # 0 THEN [root |-> r, empty |-> e, ret |-> 0, free |-> << >>]
    ELSE IF d.q0 = NullPtr
    THEN [root |-> r, empty |-> e, ret |-> 1,
          free |-> <<KeyBlock(SlotAt(r, d.p).key)>>]
    ELSE [root |-> StoreAt(r, d.q0, SlotAt(r, Append(d.q0, 1 - d.dir))),
          empty |-> e, ret |-> 1,
          free |-> <<KeyBlock(SlotAt(r, d.p).key), PairBlock>>]

\* Faulty variant: the parent is overwritten with the side of the removed leaf.
blt_delete_WrongSibling(r, e, key) ==
  IF e = 1 THEN [root |-> r, empty |-> e, ret |-> 0, free |-> << >>]
  ELSE
    LET d == DeleteLoop(r, << >>, NullPtr, 0, key) IN
    IF d.early THEN [root |-> r, empty |-> e, ret |-> 0, free |-> << >>]
    ELSE IF strcmp(key, SlotAt(r, d.p).key) # 0 THEN [root |-> r, empty |-> e, ret |-> 0, free |-> << >>]
    ELSE IF d.q0 = NullPtr
    THEN [root |-> r, empty |-> 1, ret |-> 1,
          free |-> <<KeyBlock(SlotAt(r, d.p).key)>>]
    ELSE [root |-> StoreAt(r, d.q0, SlotAt(r, Append(d.q0, d.dir))),
          empty |-> e, ret |-> 1,
          free |-> <<KeyBlock(SlotAt(r, d.p).key), PairBlock>>]

\* Faulty variant: the pair of the removed leaf is not freed.
blt_delete_KeepsPair(r, e, key) ==
  IF e = 1 THEN [root |-> r, empty |-> e, ret |-> 0, free |-> << >>]
  ELSE
    LET d == DeleteLoop(r, << >>, NullPtr, 0, key) IN
    IF d.early THEN [root |-> r, empty |-> e, ret |-> 0, free |-> << >>]
    ELSE IF strcmp(key, SlotAt(r, d.p).key) # 0 THEN [root |-> r, empty |-> e, ret |-> 0, free |-> << >>]
    ELSE IF d.q0 = NullPtr
    THEN [root |-> r, empty |-> 1, ret |-> 1,
          free |-> <<KeyBlock(SlotAt(r, d.p).key)>>]
    ELSE [root |-> StoreAt(r, d.q0, SlotAt(r, Append(d.q0, 1 - d.dir))),
          empty |-> e, ret |-> 1,
          free |-> <<KeyBlock(SlotAt(r, d.p).key)>>]

blt_delete(r, e, key) ==
  IF e = 1 THEN [root |-> r, empty |-> e, ret |-> 0, free |-> << >>]
  ELSE
    LET d == DeleteLoop(r, << >>, NullPtr, 0, key) IN
    IF d.early THEN [root |-> r, empty |-> e, ret |-> 0, free |-> << >>]
    ELSE IF strcmp(key, SlotAt(r, d.p).key) # 0 THEN [root |-> r, empty |-> e, ret |-> 0, free |-> << >>]
    ELSE IF d.q0 = NullPtr
    THEN [root |-> r, empty |-> 1, ret |-> 1,
          free |-> <<KeyBlock(SlotAt(r, d.p).key)>>]
    ELSE [root |-> StoreAt(r, d.q0, SlotAt(r, Append(d.q0, 1 - d.dir))),
          empty |-> e, ret |-> 1,
          free |-> <<KeyBlock(SlotAt(r, d.p).key), PairBlock>>]

----------------------------------------------------------------------------
\* Traversal.

RECURSIVE blt_firstlast(_, _, _)
blt_firstlast(r, p, dir) ==
  IF p = NullPtr THEN NullPtr
  ELSE IF has_tag(SlotAt(r, p)) THEN blt_firstlast(r, Append(p, dir), dir)
  ELSE p

blt_first(r, e) == IF e = 1 THEN NullPtr ELSE blt_firstlast(r, << >>, 0)
blt_last(r, e) == IF e = 1 THEN NullPtr ELSE blt_firstlast(r, << >>, 1)

\* The loop of blt_nextprev: the leaf the descent along key ends at, the
\* subtree remembered in other, and whether every key[p->byte] it read lies
\* within the string, terminator included.
RECURSIVE NextPrevLoop(_, _, _, _, _, _)
NextPrevLoop(r, p, other, key, way, inb) ==
  LET n == SlotAt(r, p) IN
  IF has_tag(n)
  THEN LET dir == decide(n.mask, At(key, n.byte))
       IN NextPrevLoop(r, Append(p, dir),
                       IF dir = way THEN Append(p, 1 - way) ELSE other,
                       key, way, inb /\ n.byte <= strlen(key))
  ELSE [p |-> p, other |-> other, inbounds |-> inb]

\* Faulty variant: the candidate nearest the root is kept instead of the deepest one.
RECURSIVE NextPrevLoop_KeepFirst(_, _, _, _, _, _)
NextPrevLoop_KeepFirst(r, p, other, key, way, inb) ==
  LET n == SlotAt(r, p) IN
  IF has_tag(n)
  THEN LET dir == decide(n.mask, At(key, n.byte))
       IN NextPrevLoop_KeepFirst(r, Append(p, dir),
                       IF dir = way /\ other = NullPtr THEN Append(p, 1 - way) ELSE other,
                       key, way, inb /\ n.byte <= strlen(key))
  ELSE [p |-> p, other |-> other, inbounds |-> inb]

blt_nextprev_KeepFirst(r, i, way) ==
  LET key == SlotAt(r, i).key
      d == NextPrevLoop_KeepFirst(r, << >>, NullPtr, key, way, TRUE)
  IN [ok |-> d.inbounds /\ strcmp(SlotAt(r, d.p).key, key) = 0,
      ret |-> blt_firstlast(r, d.other, way)]

\* blt_nextprev(blt, it, way): ok is set when every it->key[p->byte] was read
\* within the string and the assert passed.
blt_nextprev(r, i, way) ==
  LET key == SlotAt(r, i).key
      d == NextPrevLoop(r, << >>, NullPtr, key, way, TRUE)
  IN [ok |-> d.inbounds /\ strcmp(SlotAt(r, d.p).key, key) = 0,
      ret |-> blt_firstlast(r, d.other, way)]

\* Faulty variant: blt_prev walks the way blt_next does.
blt_prev_AsNext(r, i) == blt_nextprev(r, i, 0)

blt_next(r, i) == blt_nextprev(r, i, 0)
blt_prev(r, i) == blt_nextprev(r, i, 1)

\* The re-descent of blt_ceilfloor, which stops at a leaf or at a node whose
\* crit bit is higher than (byte, x).
RECURSIVE CeilFloorLoop(_, _, _, _, _, _, _)
CeilFloorLoop(r, p, other, key, byte, x, way) ==
  LET n == SlotAt(r, p) IN
  IF has_tag(n) /\ ~((byte * 256) + x < (n.byte * 256) + n.mask)
  THEN LET dir == decide(n.mask, At(key, n.byte))
       IN CeilFloorLoop(r, Append(p, dir),
                        IF dir = way THEN Append(p, 1 - way) ELSE other,
                        key, byte, x, way)
  ELSE [p |-> p, other |-> other]

\* Faulty variant: the subtree the descent stopped at is never taken as the candidate.
blt_ceilfloor_NoSubtree(r, e, key, way) ==
  LET p == confident_get(r, e, key) IN
  IF p = NullPtr THEN NullPtr
  ELSE
    LET byte == CompareKeys(key, SlotAt(r, p).key, 0) IN
    IF byte = -1 THEN p
    ELSE
      LET x == to_mask(Xor8(At(key, byte), At(SlotAt(r, p).key, byte)))
          d == CeilFloorLoop(r, << >>, NullPtr, key, byte, x, way)
      IN blt_firstlast(r, d.other, way)

blt_ceilfloor(r, e, key, way) ==
  LET p == confident_get(r, e, key) IN
  IF p = NullPtr THEN NullPtr
  ELSE
    LET byte == CompareKeys(key, SlotAt(r, p).key, 0) IN
    IF byte = -1 THEN p
    ELSE
      LET x == to_mask(Xor8(At(key, byte), At(SlotAt(r, p).key, byte)))
          ndir == decide(x, At(key, byte))
          d == CeilFloorLoop(r, << >>, NullPtr, key, byte, x, way)
          other == IF ndir = way THEN d.p ELSE d.other
      IN blt_firstlast(r, other, way)

blt_ceil(r, e, key) == blt_ceilfloor(r, e, key, 0)
blt_floor(r, e, key) == blt_ceilfloor(r, e, key, 1)

----------------------------------------------------------------------------
\* Prefix enumeration.

\* A callback: it returns val at its call number stop and 1 at every other
\* call (stop = 0: it always returns 1).
Callbacks ==
  {[stop |-> 0, val |-> 1]} \cup [stop : 1..MaxKeys, val : {0, 2}]
Always1 == [stop |-> 0, val |-> 1]
fun(f, ncall) == IF ncall = f.stop THEN f.val ELSE 1

\* The descent of blt_allprefixed: the leaf reached and top.
RECURSIVE PrefixLoop(_, _, _, _)
PrefixLoop(r, p, top, key) ==
  LET n == SlotAt(r, p) IN
  IF has_tag(n)
  THEN IF n.byte >= strlen(key)
       THEN PrefixLoop(r, Append(p, 0), top, key)
       ELSE LET c == Append(p, decide(n.mask, At(key, n.byte)))
            IN PrefixLoop(r, c, c, key)
  ELSE [p |-> p, top |-> top]

\* Faulty variant: only the status 0 stops the enumeration.
RECURSIVE traverse_StopsOnZeroOnly(_, _, _, _)
traverse_StopsOnZeroOnly(r, p, f, calls) ==
  LET n == SlotAt(r, p) IN
  IF has_tag(n)
  THEN LET t0 == traverse_StopsOnZeroOnly(r, Append(p, 0), f, calls) IN
       IF t0.status = 0 THEN t0
       ELSE LET t1 == traverse_StopsOnZeroOnly(r, Append(p, 1), f, t0.calls) IN
            IF t1.status = 0 THEN t1
            ELSE [status |-> 1, calls |-> t1.calls]
  ELSE [status |-> fun(f, Len(calls) + 1), calls |-> Append(calls, n.key)]

\* traverse(p): its status and the keys passed to the callback so far.
RECURSIVE traverse(_, _, _, _)
traverse(r, p, f, calls) ==
  LET n == SlotAt(r, p) IN
  IF has_tag(n)
  THEN LET t0 == traverse(r, Append(p, 0), f, calls) IN
       IF t0.status # 1 THEN t0
       ELSE LET t1 == traverse(r, Append(p, 1), f, t0.calls) IN
            IF t1.status # 1 THEN t1
            ELSE [status |-> 1, calls |-> t1.calls]
  ELSE [status |-> fun(f, Len(calls) + 1), calls |-> Append(calls, n.key)]

\* Faulty variant: a node whose crit byte is the terminator of the prefix still
\* narrows top.
RECURSIVE PrefixLoop_Narrow(_, _, _, _)
PrefixLoop_Narrow(r, p, top, key) ==
  LET n == SlotAt(r, p) IN
  IF has_tag(n)
  THEN IF n.byte > strlen(key)
       THEN PrefixLoop_Narrow(r, Append(p, 0), top, key)
       ELSE LET c == Append(p, decide(n.mask, At(key, n.byte)))
            IN PrefixLoop_Narrow(r, c, c, key)
  ELSE [p |-> p, top |-> top]

blt_allprefixed_Narrow(r, e, key, f) ==
  IF e = 1 THEN [ret |-> 1, calls |-> << >>, top |-> NullPtr]
  ELSE
    LET d == PrefixLoop_Narrow(r, << >>, << >>, key) IN
    IF strncmp(key, SlotAt(r, d.p).key, strlen(key)) # 0
    THEN [ret |-> 1, calls |-> << >>, top |-> d.top]
    ELSE LET t == traverse(r, d.top, f, << >>)
         IN [ret |-> t.status, calls |-> t.calls, top |-> d.top]

blt_allprefixed(r, e, key, f) ==
  IF e = 1 THEN [ret |-> 1, calls |-> << >>, top |-> NullPtr]
  ELSE
    LET d == PrefixLoop(r, << >>, << >>, key) IN
    IF strncmp(key, SlotAt(r, d.p).key, strlen(key)) # 0
    THEN [ret |-> 1, calls |-> << >>, top |-> d.top]
    ELSE LET t == traverse(r, d.top, f, << >>)
         IN [ret |-> t.status, calls |-> t.calls, top |-> d.top]

blt_forall(r, e) == blt_allprefixed(r, e, << >>, Always1)

----------------------------------------------------------------------------
\* Accounting.

\* blt_size(blt): the number of keys, counted over the leaves of the tree.
RECURSIVE CountLeaves(_)
CountLeaves(n) ==
  IF has_tag(n) THEN CountLeaves(n.kid[1]) + CountLeaves(n.kid[2]) ELSE 1

blt_size(r, e) == IF e = 1 THEN 0 ELSE CountLeaves(r)

\* The size in bytes of struct BLT and of struct blt_node_s (a pointer, two
\* 32-bit words of bit-fields; a node and an int, padded), on an LP64 build.
sizeof_BLT == 24
sizeof_blt_node_s == 16

\* Faulty variant: add counts the subtree of the first kid only.
RECURSIVE add_FirstKidOnly(_)
add_FirstKidOnly(n) ==
  IF has_tag(n) THEN 2 * sizeof_blt_node_s + add_FirstKidOnly(n.kid[1]) ELSE 0

blt_overhead_FirstKidOnly(r, e) ==
  IF e = 1 THEN sizeof_BLT ELSE sizeof_BLT + add_FirstKidOnly(r)

\* blt_overhead(blt): add(p) is the growth of n over the subtree of p.
RECURSIVE add(_)
add(n) ==
  IF has_tag(n) THEN 2 * sizeof_blt_node_s + add(n.kid[1]) + add(n.kid[2]) ELSE 0

blt_overhead(r, e) == IF e = 1 THEN sizeof_BLT ELSE sizeof_BLT + add(r)

\* Faulty variant: free_node releases the keys and leaves the pairs.
RECURSIVE free_node_KeysOnly(_)
free_node_KeysOnly(n) ==
  IF has_tag(n)
  THEN free_node_KeysOnly(n.kid[1]) \o free_node_KeysOnly(n.kid[2])
  ELSE <<KeyBlock(n.key)>>

blt_clear_KeysOnly(r, e) ==
  (IF e = 0 THEN free_node_KeysOnly(r) ELSE << >>) \o <<BltBlock>>

\* blt_clear(blt): the blocks freed, in order.
RECURSIVE free_node(_)
free_node(n) ==
  IF has_tag(n)
  THEN free_node(n.kid[1]) \o free_node(n.kid[2]) \o <<PairBlock>>
  ELSE <<KeyBlock(n.key)>>

blt_clear(r, e) == (IF e = 0 THEN free_node(r) ELSE << >>) \o <<BltBlock>>

----------------------------------------------------------------------------
\* The state machine.
\*
\* root and empty are the fields of the BLT; ref is the reference map the
\* same calls drive; last is the call that has just returned, with its
\* arguments and its integer or payload result (for next and prev: 1 when
\* the assert passed), or "idle" once the caller has taken the result; it is
\* the leaf pointer that call returned; seen is the sequence of keys handed
\* out by the running walk or enumeration.  The caller is single-threaded:
\* it makes a call when idle, and the only call made on a pending result is
\* the next step of the walk that result belongs to.

Call(op, key, data, f, ret) ==
  [op |-> op, key |-> key, data |-> data, fun |-> f, ret |-> ret]

KeyOf(r, p) == IF p = NullPtr THEN << >> ELSE <<SlotAt(r, p).key>>

Init ==
  /\ root = Uninit
  /\ empty = 1
  /\ ref = << >>
  /\ last = Call("idle", << >>, 0, Always1, 0)
  /\ it = NullPtr
  /\ seen = << >>
  /\ heap = blt_new

Idle == last.op = "idle"
Stored == DOMAIN ref
Room(K) == K \in Stored \/ Cardinality(Stored) < MaxKeys

Put(K, V) ==
  /\ Idle
  /\ Room(K)
  /\ LET res == blt_put(root, empty, K, V) IN
       /\ root' = res.root
       /\ empty' = res.empty
       /\ last' = Call("put", K, V, Always1, res.ret)
       /\ heap' = Mallocs(heap, res.alloc)
  /\ ref' = [k \in Stored \cup {K} |-> IF k = K THEN V ELSE ref[k]]
  /\ it' = NullPtr
  /\ seen' = << >>

PutIfAbsent(K, V) ==
  /\ Idle
  /\ Room(K)
  /\ LET res == blt_put_if_absent(root, empty, K, V) IN
       /\ root' = res.root
       /\ empty' = res.empty
       /\ last' = Call("put_if_absent", K, V, Always1, res.ret)
       /\ heap' = Mallocs(heap, res.alloc)
  /\ ref' = [k \in Stored \cup {K} |-> IF k \in Stored THEN ref[k] ELSE V]
  /\ it' = NullPtr
  /\ seen' = << >>

Delete(K) ==
  /\ Idle
  /\ LET res == blt_delete(root, empty, K) IN
       /\ root' = res.root
       /\ empty' = res.empty
       /\ last' = Call("delete", K, 0, Always1, res.ret)
       /\ heap' = Frees(heap, res.free)
  /\ ref' = [k \in Stored \ {K} |-> ref[k]]
  /\ it' = NullPtr
  /\ seen' = << >>

Get(K) ==
  /\ Idle
  /\ it' = blt_get(root, empty, K)
  /\ last' = Call("get", K, 0, Always1, 0)
  /\ seen' = << >>
  /\ UNCHANGED <<root, empty, ref, heap>>

Ceil(K) ==
  /\ Idle
  /\ it' = blt_ceil(root, empty, K)
  /\ last' = Call("ceil", K, 0, Always1, 0)
  /\ seen' = << >>
  /\ UNCHANGED <<root, empty, ref, heap>>

Floor(K) ==
  /\ Idle
  /\ it' = blt_floor(root, empty, K)
  /\ last' = Call("floor", K, 0, Always1, 0)
  /\ seen' = << >>
  /\ UNCHANGED <<root, empty, ref, heap>>

\* for (it = blt_first(blt); it; it = blt_next(blt, it))
First ==
  /\ Idle
  /\ it' = blt_first(root, empty)
  /\ last' = Call("first", << >>, 0, Always1, 0)
  /\ seen' = KeyOf(root, it')
  /\ UNCHANGED <<root, empty, ref, heap>>

StepNext ==
  /\ last.op \in {"first", "next"}
  /\ it # NullPtr
  /\ LET res == blt_next(root, it) IN
       /\ it' = res.ret
       /\ last' = Call("next", << >>, 0, Always1, IF res.ok THEN 1 ELSE 0)
       /\ seen' = seen \o KeyOf(root, res.ret)
  /\ UNCHANGED <<root, empty, ref, heap>>

\* for (it = blt_last(blt); it; it = blt_prev(blt, it))
Last ==
  /\ Idle
  /\ it' = blt_last(root, empty)
  /\ last' = Call("last", << >>, 0, Always1, 0)
  /\ seen' = KeyOf(root, it')
  /\ UNCHANGED <<root, empty, ref, heap>>

StepPrev ==
  /\ last.op \in {"last", "prev"}
  /\ it # NullPtr
  /\ LET res == blt_prev(root, it) IN
       /\ it' = res.ret
       /\ last' = Call("prev", << >>, 0, Always1, IF res.ok THEN 1 ELSE 0)
       /\ seen' = seen \o KeyOf(root, res.ret)
  /\ UNCHANGED <<root, empty, ref, heap>>

AllPrefixed(P, f) ==
  /\ Idle
  /\ LET res == blt_allprefixed(root, empty, P, f) IN
       /\ last' = Call("allprefixed", P, 0, f, res.ret)
       /\ seen' = res.calls
  /\ it' = NullPtr
  /\ UNCHANGED <<root, empty, ref, heap>>

Overhead ==
  /\ Idle
  /\ last' = Call("overhead", << >>, 0, Always1, blt_overhead(root, empty))
  /\ it' = NullPtr
  /\ seen' = << >>
  /\ UNCHANGED <<root, empty, ref, heap>>

\* blt_clear frees the BLT: root and empty keep what the freed block held,
\* and no call follows.
Clear ==
  /\ Idle
  /\ heap' = Frees(heap, blt_clear(root, empty))
  /\ last' = Call("clear", << >>, 0, Always1, 0)
  /\ it' = NullPtr
  /\ seen' = << >>
  /\ UNCHANGED <<root, empty, ref>>

\* The caller takes the result of the call.
Return ==
  /\ ~Idle
  /\ last.op # "clear"
  /\ last' = Call("idle", << >>, 0, Always1, 0)
  /\ it' = NullPtr
  /\ seen' = << >>
  /\ UNCHANGED <<root, empty, ref, heap>>

\* Puts, deletes and lookups, with every payload.
Next ==
  \/ \E K \in Keys, V \in Data : Put(K, V)
  \/ \E K \in Keys, V \in Data : PutIfAbsent(K, V)
  \/ \E K \in Keys : Delete(K)
  \/ \E K \in Keys : Get(K)
  \/ Overhead
  \/ Clear
  \/ Return

Spec == Init /\ [][Next]_vars

\* Walks, range queries and enumerations over the trees that puts and deletes
\* build.  None of them reads a payload, so the trees carry the payload the
\* tests store, the null pointer.
NextWalk ==
  \/ \E K \in Keys : Put(K, 0)
  \/ \E K \in Keys : Delete(K)
  \/ \E K \in Keys : Ceil(K)
  \/ \E K \in Keys : Floor(K)
  \/ First
  \/ StepNext
  \/ Last
  \/ StepPrev
  \/ \E P \in Keys, f \in Callbacks : AllPrefixed(P, f)
  \/ Return

SpecWalk == Init /\ [][NextWalk]_vars

\* The crit-bit locator on its own: to_mask on every nonzero byte, decide on
\* every byte and every mask that to_mask produces, in both argument orders,
\* and the comparison loop of blt_put_with on every pair of keys.  last.key
\* holds the byte arguments of to_mask and decide, and seen the key the
\* loop compares last.key with.
Masks == {to_mask(x) : x \in 1..255}

ToMask(x) ==
  /\ Idle
  /\ last' = Call("to_mask", <<x>>, 0, Always1, to_mask(x))
  /\ it' = NullPtr
  /\ seen' = << >>
  /\ UNCHANGED <<root, empty, ref, heap>>

Decide(c, m, swap) ==
  /\ Idle
  /\ last' = Call("decide", <<c, m>>, swap, Always1,
                  IF swap = 0 THEN decide(c, m) ELSE decide(m, c))
  /\ it' = NullPtr
  /\ seen' = << >>
  /\ UNCHANGED <<root, empty, ref, heap>>

Compare(key, pkey) ==
  /\ Idle
  /\ last' = Call("compare", key, 0, Always1, CompareKeys(key, pkey, 0))
  /\ it' = NullPtr
  /\ seen' = <<pkey>>
  /\ UNCHANGED <<root, empty, ref, heap>>

NextLocate ==
  \/ \E x \in 1..255 : ToMask(x)
  \/ \E c \in Bytes, m \in Masks, swap \in {0, 1} : Decide(c, m, swap)
  \/ \E key \in Keys, pkey \in Keys : Compare(key, pkey)
  \/ Return

SpecLocate == Init /\ [][NextLocate]_vars
----------------------------------------------------------------------------
\* The vocabulary of the properties: the order on keys, the keys and entries
\* of a tree, and the sorted sequence of a set of keys.

\* Unsigned byte-wise lexicographic order, a proper prefix before its extensions.
LexLess(a, b) ==
  \E i \in 1..Len(b) :
    /\ i <= Len(a) + 1
    /\ \A j \in 1..(i - 1) : a[j] = b[j]
    /\ (i = Len(a) + 1 \/ a[i] < b[i])
LexLeq(a, b) == a = b \/ LexLess(a, b)

HasPrefix(k, P) == Len(P) <= Len(k) /\ SubSeq(k, 1, Len(P)) = P

RECURSIVE Ascending(_)
Ascending(S) ==
  IF S = {} THEN << >>
  ELSE LET m == CHOOSE m \in S : \A j \in S : LexLeq(m, j)
       IN <<m>> \o Ascending(S \ {m})

Range(q) == {q[i] : i \in 1..Len(q)}

\* The leaves beneath a slot, left to right.
RECURSIVE Leaves(_)
Leaves(n) == IF has_tag(n) THEN Leaves(n.kid[1]) \o Leaves(n.kid[2]) ELSE <<n>>
LeafKeys(n) == {l.key : l \in Range(Leaves(n))}

\* What a returned leaf pointer must designate: the entry of key k.
Entry(k) == Leaf(k, ref[k])

----------------------------------------------------------------------------
\* C1: after any sequence of puts, put_if_absents and deletes, blt_get(K)
\* returns the leaf of K holding the payload the reference map has for K when
\* K is in the reference map, and NULL otherwise: whenever a call can be
\* made, for every key; and the pointer a call of blt_get handed back
\* designates that leaf.
GetAgrees(K) ==
  Deref(root, blt_get(root, empty, K)) = (IF K \in Stored THEN Entry(K) ELSE NULL)

C1_GetAgreesWithRef ==
  /\ Idle => \A K \in Keys : GetAgrees(K)
  /\ last.op = "get" =>
       Deref(root, it) = (IF last.key \in Stored THEN Entry(last.key) ELSE NULL)

\* A lookup of a stored key that is a proper prefix of another stored key, in
\* a full tree, after the payload 1 was stored for it.
C1_Witness ==
  /\ last.op = "get"
  /\ Cardinality(Stored) = MaxKeys
  /\ last.key \in Stored
  /\ ref[last.key] = 1
  /\ \E k \in Stored : k # last.key /\ HasPrefix(k, last.key)
  /\ it # NullPtr

----------------------------------------------------------------------------
\* C2: the walk blt_first, blt_next, ... hands out the stored keys in
\* strictly increasing order without skipping any, so that it has visited
\* every stored key exactly once when it reaches NULL; the assert of
\* blt_nextprev holds at every step.
C2_WalkAscending ==
  last.op \in {"first", "next"} =>
    /\ last.op = "next" => last.ret = 1
    /\ Len(seen) <= Cardinality(Stored)
    /\ seen = SubSeq(Ascending(Stored), 1, Len(seen))
    /\ it # NullPtr => Len(seen) > 0 /\ SlotAt(root, it).key = seen[Len(seen)]
    /\ it = NullPtr => Len(seen) = Cardinality(Stored)

\* A finished walk over a full tree that holds the empty key and a key with
\* one of its extensions.
C2_Witness ==
  /\ last.op = "next"
  /\ it = NullPtr
  /\ Len(seen) = MaxKeys
  /\ << >> \in Stored
  /\ \E a, b \in Stored : a # << >> /\ a # b /\ HasPrefix(b, a)

----------------------------------------------------------------------------
\* C3: blt_last returns the leaf with the largest key, blt_prev(it) the leaf
\* with the largest stored key smaller than it->key, NULL at the smallest
\* key; the walk blt_last, blt_prev, ... hands out the stored keys in
\* strictly decreasing order and has visited each once when it reaches NULL.
Reverse(q) == [i \in 1..Len(q) |-> q[Len(q) + 1 - i]]
Below(K) == {k \in Stored : LexLess(k, K)}
Largest(S) == CHOOSE m \in S : \A j \in S : LexLeq(j, m)

C3_WalkDescending ==
  /\ Idle =>
       /\ Deref(root, blt_last(root, empty)) =
            (IF Stored = {} THEN NULL ELSE Entry(Largest(Stored)))
       /\ \A K \in Stored :
            LET p == blt_get(root, empty, K) IN
            /\ p # NullPtr
            /\ Deref(root, blt_prev(root, p).ret) =
                 (IF Below(K) = {} THEN NULL ELSE Entry(Largest(Below(K))))
  /\ last.op \in {"last", "prev"} =>
       /\ last.op = "prev" => last.ret = 1
       /\ Len(seen) <= Cardinality(Stored)
       /\ seen = SubSeq(Reverse(Ascending(Stored)), 1, Len(seen))
       /\ it # NullPtr => Len(seen) > 0 /\ SlotAt(root, it).key = seen[Len(seen)]
       /\ it = NullPtr => Len(seen) = Cardinality(Stored)

\* A finished backward walk over a full tree.
C3_Witness ==
  /\ last.op = "prev"
  /\ it = NullPtr
  /\ Len(seen) = MaxKeys
  /\ \E a, b \in Stored : a # b /\ HasPrefix(b, a)

----------------------------------------------------------------------------
\* C4: for every key K, stored or not, blt_ceil(K) returns the leaf with the
\* smallest stored key >= K and blt_floor(K) the leaf with the largest stored
\* key <= K, NULL when there is none (so both are NULL on an empty tree and
\* both are the leaf of K when K is stored).
AtLeast(K) == {k \in Stored : LexLeq(K, k)}
AtMost(K) == {k \in Stored : LexLeq(k, K)}
Smallest(S) == CHOOSE m \in S : \A j \in S : LexLeq(m, j)
CeilOf(K) == IF AtLeast(K) = {} THEN NULL ELSE Entry(Smallest(AtLeast(K)))
FloorOf(K) == IF AtMost(K) = {} THEN NULL ELSE Entry(Largest(AtMost(K)))

C4_CeilFloor ==
  /\ Idle =>
       \A K \in Keys :
         /\ Deref(root, blt_ceil(root, empty, K)) = CeilOf(K)
         /\ Deref(root, blt_floor(root, empty, K)) = FloorOf(K)
         /\ K \in Stored => CeilOf(K) = Entry(K) /\ FloorOf(K) = Entry(K)
  /\ last.op = "ceil" => Deref(root, it) = CeilOf(last.key)
  /\ last.op = "floor" => Deref(root, it) = FloorOf(last.key)

\* The ceiling of an absent key that extends a stored key, in a full tree
\* where a larger key exists and a smaller one too.
C4_Witness ==
  /\ last.op = "ceil"
  /\ Cardinality(Stored) = MaxKeys
  /\ last.key \notin Stored
  /\ \E k \in Stored : k # << >> /\ HasPrefix(last.key, k)
  /\ it # NullPtr
  /\ AtMost(last.key) # {}
  /\ FloorOf(last.key) # CeilOf(last.key)

----------------------------------------------------------------------------
\* C5: with a callback that always returns 1, blt_allprefixed(P) calls it on
\* exactly the stored keys that start with P, each once, in increasing
\* order; when there are such keys, top is the root of a subtree whose keys
\* are exactly those.
Matching(P) == {k \in Stored : HasPrefix(k, P)}

C5_PrefixExact ==
  /\ Idle =>
       \A P \in Keys :
         LET res == blt_allprefixed(root, empty, P, Always1) IN
         /\ res.calls = Ascending(Matching(P))
         /\ Matching(P) # {} => LeafKeys(SlotAt(root, res.top)) = Matching(P)
  /\ (last.op = "allprefixed" /\ last.fun = Always1) =>
       seen = Ascending(Matching(last.key))

\* An enumeration of a nonempty prefix that some but not all stored keys
\* start with, one of them being the prefix itself.
C5_Witness ==
  /\ last.op = "allprefixed"
  /\ last.fun = Always1
  /\ last.key # << >>
  /\ last.key \in Stored
  /\ Len(seen) = 2
  /\ Cardinality(Stored) = MaxKeys
----------------------------------------------------------------------------
\* The entries a tree holds, as <<key, payload>> pairs, and its shape: the
\* tree with the payloads blanked.
TreeEntries(r, e) ==
  IF e = 1 THEN {} ELSE {<<l.key, l.data>> : l \in Range(Leaves(r))}
HasKey(r, e, K) == \E en \in TreeEntries(r, e) : en[1] = K

RECURSIVE Shape(_)
Shape(n) ==
  IF has_tag(n) THEN [n EXCEPT !.kid = <<Shape(n.kid[1]), Shape(n.kid[2])>>]
  ELSE [n EXCEPT !.data = 0]

----------------------------------------------------------------------------
\* C7: after any sequence of puts and deletes blt_size equals the number of
\* distinct stored keys, the number of leaves a full blt_first/blt_next walk
\* visits and the number blt_forall visits; once every key is deleted it is
\* 0 and blt_first returns NULL.
RECURSIVE WalkCount(_, _, _)
WalkCount(r, p, fuel) ==
  IF p = NullPtr \/ fuel = 0 THEN 0
  ELSE 1 + WalkCount(r, blt_next(r, p).ret, fuel - 1)

C7_SizeConsistent ==
  /\ blt_size(root, empty) = Cardinality(Stored)
  /\ Idle =>
       /\ WalkCount(root, blt_first(root, empty), MaxKeys + 1) = blt_size(root, empty)
       /\ Len(blt_forall(root, empty).calls) = blt_size(root, empty)
       /\ Stored = {} => blt_size(root, empty) = 0 /\ blt_first(root, empty) = NullPtr
  /\ (last.op \in {"first", "next"} /\ it = NullPtr) =>
       Len(seen) = blt_size(root, empty)
  /\ (last.op = "allprefixed" /\ last.key = << >> /\ last.fun = Always1) =>
       Len(seen) = blt_size(root, empty)

\* blt_first on a tree whose keys have all been deleted again.
C7_Witness ==
  /\ last.op = "first"
  /\ it = NullPtr
  /\ Stored = {}
  /\ root # Uninit

----------------------------------------------------------------------------
\* C8: blt_delete(K) returns 1 exactly when the tree held K; then exactly
\* the entry of K is gone and every other entry is there with its payload;
\* when it returns 0 the tree is unchanged.
C8_Delete ==
  [][last'.op = "delete" =>
       LET K == last'.key IN
       /\ last'.ret \in {0, 1}
       /\ last'.ret = 1 <=> HasKey(root, empty, K)
       /\ last'.ret = 1 =>
            /\ TreeEntries(root', empty') =
                 {en \in TreeEntries(root, empty) : en[1] # K}
            /\ blt_size(root', empty') = blt_size(root, empty) - 1
       /\ last'.ret = 0 => root' = root /\ empty' = empty]_vars

\* A delete that removed a key from a full tree in which another key holds
\* the payload 1.
C8_Witness ==
  /\ last.op = "delete"
  /\ last.ret = 1
  /\ Cardinality(Stored) = MaxKeys - 1
  /\ \E k \in Stored : ref[k] = 1

----------------------------------------------------------------------------
\* C9: blt_put_if_absent(K, V) returns 0 and adds the entry <<K, V>> when the
\* tree did not hold K; when it did, it returns 1 and the tree is unchanged.
C9_PutIfAbsent ==
  [][last'.op = "put_if_absent" =>
       LET K == last'.key
           V == last'.data
       IN IF HasKey(root, empty, K)
          THEN /\ last'.ret = 1
               /\ root' = root
               /\ empty' = empty
          ELSE /\ last'.ret = 0
               /\ TreeEntries(root', empty') = TreeEntries(root, empty) \cup {<<K, V>>}
               /\ blt_size(root', empty') = blt_size(root, empty) + 1]_vars

\* A put_if_absent of a stored key with a payload other than the stored one.
C9_Witness ==
  /\ last.op = "put_if_absent"
  /\ last.ret = 1
  /\ ref[last.key] # last.data
  /\ Cardinality(Stored) = MaxKeys

----------------------------------------------------------------------------
\* C10: blt_allprefixed calls the callback on the matching keys in sorted
\* order while it returns 1; at the first call that returns another value
\* it visits no further leaf and returns that value; it returns 1 when every
\* call returned 1, when no key matches and when the tree is empty.
C10_EarlyStop ==
  last.op = "allprefixed" =>
    LET M == Ascending(Matching(last.key))
        f == last.fun
    IN IF f.stop \in 1..Len(M)
       THEN seen = SubSeq(M, 1, f.stop) /\ last.ret = f.val
       ELSE seen = M /\ last.ret = 1

\* An enumeration over three matching keys that the callback stopped at the
\* second with the value 2.
C10_Witness ==
  /\ last.op = "allprefixed"
  /\ last.fun = [stop |-> 2, val |-> 2]
  /\ Cardinality(Matching(last.key)) = 3
  /\ Len(seen) = 2
  /\ last.ret = 2

----------------------------------------------------------------------------
\* The value blt_put returns, read as the pointer to a leaf: the null pointer
\* for 0, and otherwise the caller's payload object, which is no slot of the
\* tree.
AsLeafPtr(v) == IF v = 0 THEN NullPtr ELSE <<-1 - v>>

\* C11: blt_put returns the leaf node that holds the key and the payload it
\* was given, both for a new key and for a key that was already stored.
C11_PutReturnsLeaf ==
  last.op = "put" =>
    /\ AsLeafPtr(last.ret) = blt_get(root, empty, last.key)
    /\ Deref(root, blt_get(root, empty, last.key)) = Leaf(last.key, last.data)

----------------------------------------------------------------------------
\* The slots of the tree under n, as paths from n, and those that hold an
\* internal node.
RECURSIVE Slots(_)
Slots(n) ==
  {<< >>} \cup
  (IF has_tag(n)
   THEN {<<0>> \o p : p \in Slots(n.kid[1])} \cup {<<1>> \o p : p \in Slots(n.kid[2])}
   ELSE {})

InternalSlots(r, e) == IF e = 1 THEN {} ELSE {p \in Slots(r) : has_tag(SlotAt(r, p))}
LeafSlots(r, e) == IF e = 1 THEN {} ELSE {p \in Slots(r) : ~has_tag(SlotAt(r, p))}

\* C12: blt_overhead returns sizeof(BLT) for the empty tree and otherwise
\* sizeof(BLT) plus 2 * sizeof(struct blt_node_s) for every internal node; a
\* tree of n >= 1 keys has exactly n - 1 internal nodes, so that the result
\* is sizeof(BLT) + 2 * (n - 1) * sizeof(struct blt_node_s).
C12_Overhead ==
  /\ Stored # {} => Cardinality(InternalSlots(root, empty)) = Cardinality(Stored) - 1
  /\ last.op = "overhead" =>
       /\ last.ret = sizeof_BLT
                     + 2 * sizeof_blt_node_s * Cardinality(InternalSlots(root, empty))
       /\ last.ret = IF Stored = {} THEN sizeof_BLT
                     ELSE sizeof_BLT
                          + 2 * (Cardinality(Stored) - 1) * sizeof_blt_node_s

\* The overhead of a tree of three keys, two sibling pairs on top of the BLT.
C12_Witness ==
  /\ last.op = "overhead"
  /\ Cardinality(Stored) = 3
  /\ last.ret = sizeof_BLT + 4 * sizeof_blt_node_s

----------------------------------------------------------------------------
\* The bit a mask selects, whether a key has it set in a byte (a key has no
\* bit set at or after its terminator), and whether two keys agree on every
\* bit before the position (byte, mask).
CritBit(mask) == 255 - mask
HasCritBit(k, byte, mask) == (At(k, byte) \div CritBit(mask)) % 2 = 1
AgreeBefore(a, b, byte, mask) ==
  /\ \A i \in 0..(byte - 1) : At(a, i) = At(b, i)
  /\ At(a, byte) \div (2 * CritBit(mask)) = At(b, byte) \div (2 * CritBit(mask))

\* C13: at every internal node, with critical position (byte, mask), all keys
\* beneath agree on every bit before that position, every key under child 0
\* has the critical bit clear (or ends at or before that byte), every key
\* under child 1 has it set, and so every key under child 0 is
\* lexicographically smaller than every key under child 1.  The trees are
\* those the caller sees between calls and right after each put; a call
\* that returns anything else leaves a tree the caller sees once it has
\* taken the result.
C13_CritBitPartition ==
  (Idle \/ last.op = "put") =>
    \A p \in InternalSlots(root, empty) :
      LET n == SlotAt(root, p)
          K0 == LeafKeys(n.kid[1])
          K1 == LeafKeys(n.kid[2])
      IN /\ CritBit(n.mask) \in Range(Pow2)
         /\ \A a \in K0 \cup K1, b \in K0 \cup K1 : AgreeBefore(a, b, n.byte, n.mask)
         /\ \A a \in K0 : ~HasCritBit(a, n.byte, n.mask)
         /\ \A b \in K1 : HasCritBit(b, n.byte, n.mask)
         /\ \A a \in K0, b \in K1 : LexLess(a, b)

\* A put has spliced a node in below the root whose critical bit lies in the
\* second byte, with a key ending before that byte under its child 0.
C13_Witness ==
  /\ last.op = "put"
  /\ \E p \in InternalSlots(root, empty) :
       /\ p # << >>
       /\ SlotAt(root, p).byte = 1
       /\ \E a \in LeafKeys(SlotAt(root, p).kid[1]) : Len(a) <= 1
       /\ last.key \in LeafKeys(SlotAt(root, p))

----------------------------------------------------------------------------
\* The critical position of an internal node in the order of the re-descent,
\* the critical position blt_put_with computes for key against the leaf of
\* its confident descent, and the slots on the way to the slot p.
Pos(n) == (n.byte * 256) + n.mask
NewPos(r, e, key) ==
  LET pkey == SlotAt(r, confident_get(r, e, key)).key
      byte == CompareKeys(key, pkey, 0)
      x == to_mask(Xor8(At(key, byte), At(pkey, byte)))
  IN [byte |-> byte, mask |-> x]
PathTo(p) == {SubSeq(p, 1, i) : i \in 0..Len(p)}

\* C14: along every path from the root to a leaf the critical positions
\* strictly increase in the order (byte << 8) + mask; so every descent ends
\* at a leaf, and the critical position computed for a new key is never that
\* of a node on its descent path.  The new keys are all the keys the caller
\* may put next, in every tree it holds between calls.
C14_PositionsIncrease ==
  /\ \A p \in InternalSlots(root, empty), d \in {0, 1} :
       has_tag(SlotAt(root, Append(p, d)))
         => Pos(SlotAt(root, p)) < Pos(SlotAt(root, Append(p, d)))
  /\ (Idle /\ empty = 0) =>
       \A K \in Keys \ LeafKeys(root) :
         LET c == confident_get(root, empty, K)
             np == NewPos(root, empty, K)
             sp == SpliceLoop(root, << >>, K, np.byte, np.mask)
         IN /\ ~has_tag(SlotAt(root, c))
            /\ ~has_tag(SlotAt(root, blt_firstlast(root, << >>, 0)))
            /\ \A q \in PathTo(c) \cup PathTo(sp) :
                 has_tag(SlotAt(root, q)) => Pos(SlotAt(root, q)) # Pos(np)

\* A put has spliced its node in directly below the root, the new leaf being
\* one of its children: the new position lay after the root's and before
\* whatever the root's child held.
C14_Witness ==
  /\ last.op = "put"
  /\ has_tag(root)
  /\ \E d \in {0, 1}, c \in {0, 1} :
       /\ has_tag(SlotAt(root, <<d>>))
       /\ Pos(root) < Pos(SlotAt(root, <<d>>))
       /\ SlotAt(root, <<d, c>>) = Leaf(last.key, last.data)
       /\ last.ret = 0

----------------------------------------------------------------------------
\* The number of live sibling pairs.
LivePairs(h) == IF PairBlock \in DOMAIN h.live THEN h.live[PairBlock] ELSE 0

\* C15: a blt_put of a new key into a non-empty tree allocates exactly one
\* sibling pair and overwrites exactly one slot, the splice point: what that
\* slot held is copied unchanged into the slot of the new pair opposite the
\* new leaf, the splice point becomes an internal node with the new
\* (byte, mask), and every other slot of the tree is unchanged.
C15_PutFrame ==
  [][(last'.op = "put" /\ empty = 0 /\ last'.key \notin LeafKeys(root)) =>
       \E sp \in Slots(root) \cap Slots(root'), ndir \in {0, 1} :
         LET np == NewPos(root, empty, last'.key)
             new == SlotAt(root', sp)
         IN /\ has_tag(new)
            /\ new.byte = np.byte
            /\ new.mask = np.mask
            /\ new.kid[ndir + 1] = Leaf(last'.key, last'.data)
            /\ new.kid[2 - ndir] = SlotAt(root, sp)
            /\ root' = StoreAt(root, sp, new)
            /\ empty' = 0
            /\ Cardinality(InternalSlots(root', empty'))
                 = Cardinality(InternalSlots(root, empty)) + 1
            /\ LivePairs(heap') = LivePairs(heap) + 1]_vars

\* A put of a new key has spliced its node in at a slot that held an internal
\* node, which now hangs, whole, opposite the new leaf.
C15_Witness ==
  /\ last.op = "put"
  /\ last.ret = 0
  /\ LivePairs(heap) = 2
  /\ \E sp \in InternalSlots(root, empty), ndir \in {0, 1} :
       /\ SlotAt(root, Append(sp, ndir)) = Leaf(last.key, last.data)
       /\ has_tag(SlotAt(root, Append(sp, 1 - ndir)))

----------------------------------------------------------------------------
\* The slot that points to the pair of the slot p, and the other slot of
\* that pair.
Parent(p) == SubSeq(p, 1, Len(p) - 1)
Sibling(p) == Append(Parent(p), 1 - p[Len(p)])

\* C16: a successful blt_delete removes exactly one leaf and one internal
\* node: the parent slot of the removed leaf is overwritten with what the
\* sibling slot held, so that the sibling subtree or leaf rises one level
\* unchanged, and the pair is released; if the removed entry was the only
\* one, the tree becomes empty; no other slot changes.
C16_DeleteFrame ==
  [][(last'.op = "delete" /\ last'.ret = 1) =>
       \E p \in LeafSlots(root, empty) :
         /\ SlotAt(root, p).key = last'.key
         /\ IF p = << >>
            THEN /\ empty' = 1
                 /\ root' = root
                 /\ LivePairs(heap') = LivePairs(heap)
            ELSE /\ empty' = 0
                 /\ root' = StoreAt(root, Parent(p), SlotAt(root, Sibling(p)))
                 /\ SlotAt(root', Parent(p)) = SlotAt(root, Sibling(p))
                 /\ LivePairs(heap') = LivePairs(heap) - 1
                 /\ Cardinality(InternalSlots(root', empty'))
                      = Cardinality(InternalSlots(root, empty)) - 1
         /\ Cardinality(LeafSlots(root', empty'))
              = Cardinality(LeafSlots(root, empty)) - 1]_vars

\* A delete has succeeded and left two keys under one pair: a sibling has
\* risen into the slot of the parent, and one of the two pairs was released.
C16_Witness ==
  /\ last.op = "delete"
  /\ last.ret = 1
  /\ empty = 0
  /\ Cardinality(LeafSlots(root, empty)) = 2
  /\ LivePairs(heap) = 1
  /\ last.key \notin LeafKeys(root)

----------------------------------------------------------------------------
\* The keys at the leaves of the tree; whether the descent of blt_delete and
\* blt_get for key leaves through the return inside the loop; and the
\* descent without that return (a key reads as 0 from its terminator on),
\* followed by the comparison of the whole key: the leaf found, or NullPtr.
TreeKeys(r, e) == IF e = 1 THEN {} ELSE LeafKeys(r)
EarlyReturn(r, e, key) == e = 0 /\ DeleteLoop(r, << >>, NullPtr, 0, key).early
RECURSIVE FullDescent(_, _, _)
FullDescent(r, p, key) ==
  IF has_tag(SlotAt(r, p))
  THEN FullDescent(r, Append(p, IF HasCritBit(key, SlotAt(r, p).byte, SlotAt(r, p).mask)
                                THEN 1 ELSE 0), key)
  ELSE p
FullLookup(r, e, key) ==
  IF e = 1 THEN NullPtr
  ELSE LET p == FullDescent(r, << >>, key)
       IN IF SlotAt(r, p).key = key THEN p ELSE NullPtr

\* C17: in blt_delete and blt_get, whenever the descent reaches an internal
\* node whose critical byte index exceeds the length of the key, the key is
\* not stored: the early return never misses a stored key, and both
\* functions give the result of a descent without the early return followed
\* by the comparison of the whole key.  Both are applied to every key in
\* every tree the caller holds between calls, and blt_get to the key of
\* each call made.
C17_EarlyReturnSound ==
  /\ Idle =>
       \A K \in Keys :
         /\ EarlyReturn(root, empty, K) =>
              K \notin TreeKeys(root, empty) /\ FullLookup(root, empty, K) = NullPtr
         /\ blt_get(root, empty, K) = FullLookup(root, empty, K)
         /\ blt_delete(root, empty, K).ret
              = (IF FullLookup(root, empty, K) # NullPtr THEN 1 ELSE 0)
         /\ K \in TreeKeys(root, empty) =>
              blt_get(root, empty, K) # NullPtr /\ blt_delete(root, empty, K).ret = 1
  /\ last.op = "get" =>
       /\ it = FullLookup(root, empty, last.key)
       /\ EarlyReturn(root, empty, last.key) => last.key \notin TreeKeys(root, empty)

\* A blt_get has left through the early return: the key is shorter than the
\* critical byte of an internal node on its path.
C17_Witness ==
  /\ last.op = "get"
  /\ EarlyReturn(root, empty, last.key)
  /\ it = NullPtr
  /\ \E p \in InternalSlots(root, empty) : SlotAt(root, p).byte > Len(last.key)

----------------------------------------------------------------------------
\* The index of the first byte where two different keys differ (terminator
\* included), the highest bit in which those bytes differ, and the length in
\* bits of the longest common prefix of two keys: all the bits of a, with
\* its terminator, when the keys are equal.
FirstDiff(a, b) ==
  CHOOSE i \in 0..Len(a) : At(a, i) # At(b, i) /\ \A j \in 0..(i - 1) : At(a, j) = At(b, j)
DiffBit(x, y) ==
  CHOOSE i \in 0..7 :
    /\ (x \div Pow2[i + 1]) % 2 # (y \div Pow2[i + 1]) % 2
    /\ x \div (2 * Pow2[i + 1]) = y \div (2 * Pow2[i + 1])
CommonBits(a, b) ==
  IF a = b THEN 8 * (Len(a) + 1)
  ELSE 8 * FirstDiff(a, b) + (7 - DiffBit(At(a, FirstDiff(a, b)), At(b, FirstDiff(a, b))))

\* C18: in a non-empty tree, for every key, the leaf that confident_get
\* reaches agrees with the key on a bit prefix at least as long as that of
\* any stored key; so the first differing bit that the comparison loop
\* computes between the key and that leaf is the true point of divergence
\* of the key from the stored set.  The trees are those the caller holds
\* between calls.
C18_ConfidentLeafClosest ==
  (Idle /\ empty = 0) =>
    \A K \in Keys :
      LET L == SlotAt(root, confident_get(root, empty, K)).key
          np == NewPos(root, empty, K)
      IN /\ L \in LeafKeys(root)
         /\ \A k \in LeafKeys(root) : CommonBits(K, k) <= CommonBits(K, L)
         /\ K # L =>
              /\ np.byte = FirstDiff(K, L)
              /\ CritBit(np.mask) = Pow2[DiffBit(At(K, np.byte), At(L, np.byte)) + 1]
              /\ \A k \in LeafKeys(root) :
                   CommonBits(K, k) <= 8 * np.byte + (7 - DiffBit(At(K, np.byte), At(L, np.byte)))

\* Between calls, a tree of three keys and a key that is not stored whose
\* confident descent passes a node at or after the end of the key and ends
\* at a leaf that shares strictly more bits with it than another stored key.
C18_Witness ==
  /\ Idle
  /\ Cardinality(TreeKeys(root, empty)) = 3
  /\ \E K \in Keys \ TreeKeys(root, empty) :
       LET c == confident_get(root, empty, K) IN
       /\ \E q \in PathTo(c) : has_tag(SlotAt(root, q)) /\ SlotAt(root, q).byte >= Len(K)
       /\ \E k \in LeafKeys(root) :
            CommonBits(K, k) < CommonBits(K, SlotAt(root, c).key)

----------------------------------------------------------------------------
\* The most significant set bit of a nonzero byte.
Msb(x) == Pow2[(CHOOSE i \in 0..7 : x \div Pow2[i + 1] = 1) + 1]

\* C19: the comparison loop reports equality exactly when the two keys are
\* identical and otherwise stops at the index of the first differing byte,
\* the terminator counting as a byte; for every nonzero byte x, to_mask(x)
\* is 255 minus the most significant set bit of x; and for every byte c and
\* every such mask m, decide(c, m), in either argument order, is 1 exactly
\* when c has that bit set, and 0 otherwise.
C19_Locator ==
  /\ last.op = "compare" =>
       /\ last.ret = -1 <=> last.key = seen[1]
       /\ last.key # seen[1] => last.ret = FirstDiff(last.key, seen[1])
  /\ last.op = "to_mask" => last.ret = 255 - Msb(last.key[1])
  /\ last.op = "decide" =>
       last.ret = (IF (last.key[1] \div (255 - last.key[2])) % 2 = 1 THEN 1 ELSE 0)

\* decide has been called mask first, on the mask of bit 1 and a byte that
\* has that bit and others set.
C19_Witness ==
  /\ last.op = "decide"
  /\ last.data = 1
  /\ last.key = <<131, to_mask(3)>>
  /\ last.ret = 1

----------------------------------------------------------------------------
\* The blocks the tree owns, with the number of slots that refer to each:
\* the BLT, one pair for every internal node and one key copy for every leaf.
Owned(r, e) ==
  [b \in {BltBlock}
         \cup (IF InternalSlots(r, e) # {} THEN {PairBlock} ELSE {})
         \cup {KeyBlock(SlotAt(r, p).key) : p \in LeafSlots(r, e)} |->
     IF b = BltBlock THEN 1
     ELSE IF b = PairBlock THEN Cardinality(InternalSlots(r, e))
     ELSE Cardinality({p \in LeafSlots(r, e) : SlotAt(r, p).key = b.key})]

\* C20: the heap blocks the tree owns are exactly one key copy for every
\* stored key and one sibling pair for every internal node reachable from
\* the root: nothing allocated is unreachable and nothing reachable has been
\* freed.  blt_delete frees exactly the copy of the removed key and one pair
\* (no pair when the removed entry was the only one); blt_clear frees every
\* remaining key copy and every pair exactly once, and never frees a payload.
C20_HeapOwnership ==
  /\ [](/\ ~heap.bad
        /\ last.op # "clear" => heap.live = Owned(root, empty)
        /\ last.op # "clear" =>
             \A k \in Stored : heap.live[KeyBlock(k)] = 1
        /\ last.op = "clear" => DOMAIN heap.live = {})
  /\ [][/\ last'.op = "delete" =>
             heap' = (IF last'.ret = 0 THEN heap
                      ELSE IF Cardinality(LeafSlots(root, empty)) = 1
                      THEN free(heap, KeyBlock(last'.key))
                      ELSE free(free(heap, KeyBlock(last'.key)), PairBlock))
        /\ last'.op = "clear" =>
             LET fs == blt_clear(root, empty) IN
             /\ Len(fs) = 1 + Cardinality(LeafSlots(root, empty))
                            + Cardinality(InternalSlots(root, empty))
             /\ \A i \in 1..Len(fs) : fs[i].kind \in {"key", "pair", "blt"}
             /\ \A k \in Stored :
                  Cardinality({i \in 1..Len(fs) : fs[i] = KeyBlock(k)}) = 1
             /\ Cardinality({i \in 1..Len(fs) : fs[i] = PairBlock})
                  = LivePairs(heap)
             /\ ~heap'.bad]_vars

\* blt_clear has freed a tree of three keys: nothing is live and no free was
\* of a block that was not.
C20_Witness ==
  /\ last.op = "clear"
  /\ Cardinality(Stored) = 3
  /\ Cardinality(InternalSlots(root, empty)) = 2
  /\ DOMAIN heap.live = {}
  /\ ~heap.bad

====
